---- MODULE Spec2Model ----
(***************************************************************************)
(* KickAI Judge Computer Vision Service                                    *)
(* (topik_03_Kira/computer-vision/main.py).                                *)
(*                                                                         *)
(* The module body of main.py is executed top to bottom when the file is   *)
(* launched as a script: load_dotenv(), FastAPI(...), add_middleware(...),  *)
(* the four route decorators, then the __main__ block that reads the       *)
(* environment and calls uvicorn.run.  After that the process serves HTTP  *)
(* requests by dispatching them over app.routes.                           *)
(*                                                                         *)
(* Two runs of the service are modelled side by side.  They are launched   *)
(* with process environments that agree on everything but ENV, and they    *)
(* are sent the same sequence of requests, so that statements comparing    *)
(* two runs are statements about one state.                                *)
(***************************************************************************)
EXTENDS Integers, Sequences, FiniteSets, TLC

\* ------------------------------------------------------------------------
\* Bounds and input alphabets
\* ------------------------------------------------------------------------

\* Number of requests a behaviour sends to the service.
MaxRequests == 3

Runs == {1, 2}

EnvModes == {"development", "production"}
HostValues == {"127.0.0.1"}
\* Values of CV_PORT, as character sequences so that int() has work to do.
PortValues == {<<"9", "0", "0", "0">>, <<"a", "b", "c">>}

NoBody == [kind |-> "none", id |-> ""]

Req(m, p, b) == [method |-> m, path |-> p, body |-> b]

\* The requests a client sends: every declared route, one framework route,
\* one wrong method, one unknown path, and different payloads for the two
\* POST endpoints.
Methods == {"GET", "POST"}

Requests ==
    { Req("GET", "/", NoBody),
      Req("GET", "/health", NoBody),
      Req("GET", "/docs", NoBody),
      Req("GET", "/missing", NoBody),
      Req("GET", "/api/v1/process-video", NoBody),
      Req("POST", "/api/v1/process-video", [kind |-> "video", id |-> "v1"]),
      Req("POST", "/api/v1/process-video", [kind |-> "video", id |-> "v2"]),
      Req("POST", "/api/v1/analyze-frame", [kind |-> "image", id |-> "blank"]),
      Req("POST", "/api/v1/analyze-frame", NoBody) }

\* ------------------------------------------------------------------------
\* State
\* ------------------------------------------------------------------------

VARIABLES
    dotenv,     \* contents of the .env file load_dotenv() reads
    environ,    \* environ[r]: os.environ of run r (keys that are set)
    pc,         \* pc[r]: the statement of main.py run r executes next
    app,        \* app[r]: the FastAPI object (routes, middleware)
    server,     \* server[r]: the arguments uvicorn.run was called with
    requests,   \* the requests sent so far (the same to both runs)
    responses   \* responses[r][i]: run r's answer to requests[i]

vars == <<dotenv, environ, pc, app, server, requests, responses>>

\* ------------------------------------------------------------------------
\* Environment access
\* ------------------------------------------------------------------------

\* os.getenv(key, default)
getenv(env, key, default) == IF key \in DOMAIN env THEN env[key] ELSE default

\* load_dotenv(): variables of the .env file are added to os.environ, a
\* variable that is already set keeps its value (override=False).
load_dotenv(env, file) ==
    [k \in (DOMAIN env) \cup (DOMAIN file) |->
        IF k \in DOMAIN env THEN env[k] ELSE file[k]]

Digits == {"0", "1", "2", "3", "4", "5", "6", "7", "8", "9"}

DigitValue(c) ==
    CASE c = "0" -> 0 [] c = "1" -> 1 [] c = "2" -> 2 [] c = "3" -> 3
      [] c = "4" -> 4 [] c = "5" -> 5 [] c = "6" -> 6 [] c = "7" -> 7
      [] c = "8" -> 8 [] c = "9" -> 9

\* int(s) raises ValueError unless s is a non-empty run of digits.
IsIntLiteral(s) == Len(s) > 0 /\ \A i \in 1..Len(s) : s[i] \in Digits

RECURSIVE ParseInt(_)
ParseInt(s) ==
    IF Len(s) = 0 THEN 0
    ELSE 10 * ParseInt(SubSeq(s, 1, Len(s) - 1)) + DigitValue(s[Len(s)])

DefaultPort == 8000
DefaultHost == "0.0.0.0"

\* reload=True if os.getenv("ENV") == "development" else False
ReloadOnNonProduction(env) == getenv(env, "ENV", "None") # "production"
ReloadFlag(env) == getenv(env, "ENV", "None") = "development"


\* ------------------------------------------------------------------------
\* Handlers: the value each endpoint function returns
\* ------------------------------------------------------------------------

\* A directory whose health entry names a path no route serves.
root_stale ==
    [service |-> "KickAI Judge Computer Vision",
     version |-> "1.0.0",
     status |-> "running",
     endpoints |-> [health |-> "/healthz",
                    process_video |-> "/api/v1/process-video",
                    analyze_frame |-> "/api/v1/analyze-frame"]]
root ==
    [service |-> "KickAI Judge Computer Vision",
     version |-> "1.0.0",
     status |-> "running",
     endpoints |-> [health |-> "/health",
                    process_video |-> "/api/v1/process-video",
                    analyze_frame |-> "/api/v1/analyze-frame"]]

\* A health check that stamps the answer with a clock that advances.
health_check_clock ==
    [status |-> "healthy",
     service |-> "cv-service",
     timestamp |-> IF Len(requests) < 2 THEN "2024-01-01T00:00:00Z"
                   ELSE "2024-01-01T00:00:01Z"]
health_check ==
    [status |-> "healthy",
     service |-> "cv-service",
     timestamp |-> "2024-01-01T00:00:00Z"]

\* A handler that answers differently once it has been called before.
process_video_cached ==
    [message |-> "Video processing endpoint - to be implemented",
     status |-> IF \E i \in 1..Len(requests) :
                      requests[i].path = "/api/v1/process-video"
                THEN "not_implemented" ELSE "accepted"]
process_video ==
    [message |-> "Video processing endpoint - to be implemented",
     status |-> "not_implemented"]

\* A handler that reports the frame as analysed.
analyze_frame_done ==
    [message |-> "Frame analysis endpoint - to be implemented",
     status |-> "ok"]
analyze_frame ==
    [message |-> "Frame analysis endpoint - to be implemented",
     status |-> "not_implemented"]

\* ------------------------------------------------------------------------
\* Routing
\* ------------------------------------------------------------------------

Route(p, ms, e, s) ==
    [path |-> p, methods |-> ms, endpoint |-> e, include_in_schema |-> s]

\* FastAPI(title=..., description=..., version=...) leaves openapi_url,
\* docs_url and redoc_url at their defaults, so the constructor registers
\* the documentation routes; they are not part of the API schema.
DefaultRoutes ==
    << Route("/openapi.json", {"GET"}, "openapi", FALSE),
       Route("/docs", {"GET"}, "swagger_ui_html", FALSE),
       Route("/docs/oauth2-redirect", {"GET"}, "swagger_ui_redirect", FALSE),
       Route("/redoc", {"GET"}, "redoc_html", FALSE) >>

CORSMiddleware ==
    [cls |-> "CORSMiddleware",
     allow_origins |-> {"*"},
     allow_credentials |-> TRUE,
     allow_methods |-> {"*"},
     allow_headers |-> {"*"}]

\* What the function behind a route returns.
Call(endpoint) ==
    CASE endpoint = "root" -> root
      [] endpoint = "health_check" -> health_check
      [] endpoint = "process_video" -> process_video
      [] endpoint = "analyze_frame" -> analyze_frame
      [] endpoint = "openapi" -> [openapi |-> "3.1.0"]
      [] endpoint = "swagger_ui_html" -> [html |-> "swagger-ui"]
      [] endpoint = "swagger_ui_redirect" -> [html |-> "oauth2-redirect"]
      [] endpoint = "redoc_html" -> [html |-> "redoc"]

Response(c, b) == [code |-> c, body |-> b]

FullMatches(routes, req) ==
    {i \in 1..Len(routes) :
        routes[i].path = req.path /\ req.method \in routes[i].methods}

PathMatches(routes, req) ==
    {i \in 1..Len(routes) : routes[i].path = req.path}

\* The router tries the routes in registration order: the first route whose
\* path and method match answers; a path that matches with another method
\* gives 405, no match gives 404.  The handlers take no parameters, so the
\* request body never reaches them.
Dispatch(routes, req) ==
    IF FullMatches(routes, req) # {}
    THEN LET i == CHOOSE k \in FullMatches(routes, req) :
                      \A j \in FullMatches(routes, req) : k <= j
         IN  Response(200, Call(routes[i].endpoint))
    ELSE IF PathMatches(routes, req) # {}
         THEN Response(405, [detail |-> "Method Not Allowed"])
         ELSE Response(404, [detail |-> "Not Found"])

\* ------------------------------------------------------------------------
\* Initial state: the two processes before the first statement of main.py
\* ------------------------------------------------------------------------

Keys == {"ENV", "CV_HOST", "CV_PORT"}

MkEnv(S, e, h, p) ==
    [k \in S |-> CASE k = "ENV" -> e [] k = "CV_HOST" -> h [] k = "CV_PORT" -> p]

DotenvFiles == { MkEnv({}, "", "", <<>>), MkEnv({"ENV"}, "development", "", <<>>) }

NoApp == [title |-> "", routes |-> <<>>, middleware |-> <<>>]
NoServer == [running |-> FALSE, host |-> "", port |-> 0, reload |-> FALSE]

Init ==
    /\ dotenv \in DotenvFiles
    /\ \E C \in SUBSET {"CV_HOST", "CV_PORT"}, h \in HostValues, p \in PortValues :
       \E E1, E2 \in SUBSET {"ENV"}, e1, e2 \in EnvModes :
          environ = [r \in Runs |->
                        IF r = 1 THEN MkEnv(C \cup E1, e1, h, p)
                                 ELSE MkEnv(C \cup E2, e2, h, p)]
    /\ pc = [r \in Runs |-> "load_dotenv"]
    /\ app = [r \in Runs |-> NoApp]
    /\ server = [r \in Runs |-> NoServer]
    /\ requests = <<>>
    /\ responses = [r \in Runs |-> <<>>]

\* ------------------------------------------------------------------------
\* Actions: the statements of main.py, then request handling
\* ------------------------------------------------------------------------

\* line 14: load_dotenv()
LoadDotenv(r) ==
    /\ pc[r] = "load_dotenv"
    /\ environ' = [environ EXCEPT ![r] = load_dotenv(environ[r], dotenv)]
    /\ pc' = [pc EXCEPT ![r] = "FastAPI"]
    /\ UNCHANGED <<dotenv, app, server, requests, responses>>

\* lines 19-23: app = FastAPI(...)
CreateApp(r) ==
    /\ pc[r] = "FastAPI"
    /\ app' = [app EXCEPT ![r] = [title |-> "KickAI Judge CV Service",
                                  routes |-> DefaultRoutes,
                                  middleware |-> <<>>]]
    /\ pc' = [pc EXCEPT ![r] = "add_middleware"]
    /\ UNCHANGED <<dotenv, environ, server, requests, responses>>

\* lines 26-32: app.add_middleware(CORSMiddleware, ...)
AddMiddleware(r) ==
    /\ pc[r] = "add_middleware"
    /\ app' = [app EXCEPT ![r].middleware = <<CORSMiddleware>> \o @]
    /\ pc' = [pc EXCEPT ![r] = "route_root"]
    /\ UNCHANGED <<dotenv, environ, server, requests, responses>>

\* A decorator appends one route to app.routes.
AddRoute(r, at, next, route) ==
    /\ pc[r] = at
    /\ app' = [app EXCEPT ![r].routes = Append(@, route)]
    /\ pc' = [pc EXCEPT ![r] = next]
    /\ UNCHANGED <<dotenv, environ, server, requests, responses>>

\* line 34: @app.get("/")
RegisterRoot(r) ==
    AddRoute(r, "route_root", "route_health", Route("/", {"GET"}, "root", TRUE))

\* line 47: @app.get("/health")
RegisterHealth(r) ==
    AddRoute(r, "route_health", "route_process_video",
             Route("/health", {"GET"}, "health_check", TRUE))

\* line 55: @app.post("/api/v1/process-video")
RegisterProcessVideo(r) ==
    AddRoute(r, "route_process_video", "route_analyze_frame",
             Route("/api/v1/process-video", {"POST"}, "process_video", TRUE))

\* line 64: @app.post("/api/v1/analyze-frame")
RegisterAnalyzeFrame(r) ==
    AddRoute(r, "route_analyze_frame", "main",
             Route("/api/v1/analyze-frame", {"POST"}, "analyze_frame", TRUE))

\* lines 74: int(os.getenv("CV_PORT", 8000)) raises ValueError, the process
\* ends before uvicorn.run is reached.
MainBadPort(r) ==
    /\ pc[r] = "main"
    /\ "CV_PORT" \in DOMAIN environ[r]
    /\ ~IsIntLiteral(environ[r]["CV_PORT"])
    /\ pc' = [pc EXCEPT ![r] = "crashed"]
    /\ UNCHANGED <<dotenv, environ, app, server, requests, responses>>

\* lines 73-84: the __main__ block starts the server.
MainRun(r) ==
    /\ pc[r] = "main"
    /\ "CV_PORT" \in DOMAIN environ[r] => IsIntLiteral(environ[r]["CV_PORT"])
    /\ server' = [server EXCEPT ![r] =
          [running |-> TRUE,
           host |-> getenv(environ[r], "CV_HOST", DefaultHost),
           port |-> IF "CV_PORT" \in DOMAIN environ[r]
                    THEN ParseInt(environ[r]["CV_PORT"]) ELSE DefaultPort,
           reload |-> ReloadFlag(environ[r])]]
    /\ pc' = [pc EXCEPT ![r] = "serving"]
    /\ UNCHANGED <<dotenv, environ, app, requests, responses>>

\* One request, sent to both runs and answered by each from its own routes.
Serve(req) ==
    /\ \A r \in Runs : pc[r] = "serving"
    /\ Len(requests) < MaxRequests
    /\ requests' = Append(requests, req)
    /\ responses' = [r \in Runs |->
                        Append(responses[r], Dispatch(app[r].routes, req))]
    /\ UNCHANGED <<dotenv, environ, pc, app, server>>

Next ==
    \/ \E r \in Runs : LoadDotenv(r)
    \/ \E r \in Runs : CreateApp(r)
    \/ \E r \in Runs : AddMiddleware(r)
    \/ \E r \in Runs : RegisterRoot(r)
    \/ \E r \in Runs : RegisterHealth(r)
    \/ \E r \in Runs : RegisterProcessVideo(r)
    \/ \E r \in Runs : RegisterAnalyzeFrame(r)
    \/ \E r \in Runs : MainBadPort(r)
    \/ \E r \in Runs : MainRun(r)
    \/ \E req \in Requests : Serve(req)

Spec == Init /\ [][Next]_vars

\* ------------------------------------------------------------------------
\* Vocabulary of the properties
\* ------------------------------------------------------------------------

IsProcessVideoCall(q) == q.method = "POST" /\ q.path = "/api/v1/process-video"
IsAnalyzeFrameCall(q) == q.method = "POST" /\ q.path = "/api/v1/analyze-frame"
IsHealthCall(q) == q.method = "GET" /\ q.path = "/health"
IsRootCall(q) == q.method = "GET" /\ q.path = "/"

Served == 1..Len(requests)

\* AnalysisReport: {video_id, ordered sequence of StrikeEvent,
\* total_frames_processed}.
IsAnalysisReport(b) ==
    /\ {"video_id", "total_frames_processed"} \subseteq DOMAIN b
    /\ Cardinality(DOMAIN b) = 3

ErrorKinds == {"DecodeError", "InferenceError", "AggregationError"}

\* A structured error: a failure status, an error kind and a message.
IsExplicitError(a) ==
    /\ a.code >= 400
    /\ "message" \in DOMAIN a.body
    /\ \E f \in DOMAIN a.body : a.body[f] \in ErrorKinds

\* The paths the directory of GET / names, as run r returns it now.
Advertised(r) ==
    LET d == Dispatch(app[r].routes, Req("GET", "/", NoBody)).body.endpoints
    IN  {d[k] : k \in DOMAIN d}

RegisteredPaths(r) == {app[r].routes[i].path : i \in 1..Len(app[r].routes)}

\* The paths of the routes main.py declares with its own decorators (the
\* routes of the API schema), as opposed to the framework's own routes.
DeclaredPaths(r) ==
    {app[r].routes[i].path :
        i \in {j \in 1..Len(app[r].routes) : app[r].routes[j].include_in_schema}}

\* ------------------------------------------------------------------------
\* Properties
\* ------------------------------------------------------------------------

\* C1: whatever was sent before and whatever the payload, every answer to
\* POST /api/v1/process-video and to POST /api/v1/analyze-frame carries
\* status "not_implemented".
C1_PlaceholdersNotImplemented ==
    \A r \in Runs : \A i \in Served :
        (IsProcessVideoCall(requests[i]) \/ IsAnalyzeFrameCall(requests[i]))
            => /\ "status" \in DOMAIN responses[r][i].body
               /\ responses[r][i].body.status = "not_implemented"

C1_Witness ==
    /\ Len(requests) >= 3
    /\ IsAnalyzeFrameCall(requests[1]) /\ requests[1].body.kind = "image"
    /\ requests[2].path = "/missing"
    /\ IsProcessVideoCall(requests[3]) /\ requests[3].body.id = "v2"
    /\ responses[1][1].body.status = "not_implemented"
    /\ responses[1][3].body.status = "not_implemented"

\* C2: the answer to an upload (POST /api/v1/process-video with a video and
\* a video identifier) is an AnalysisReport for that video: video_id, the
\* sequence of strike events, total_frames_processed.
C2_UploadReturnsReport ==
    \A r \in Runs : \A i \in Served :
        (IsProcessVideoCall(requests[i]) /\ requests[i].body.kind = "video")
            => /\ IsAnalysisReport(responses[r][i].body)
               /\ responses[r][i].body.video_id = requests[i].body.id

\* C3: the answer to POST /api/v1/analyze-frame with an image carries the
\* frame's pose estimates and strike events, both empty for a frame without
\* a detectable pose.
C3_FrameReturnsPoses ==
    \A r \in Runs : \A i \in Served :
        (IsAnalyzeFrameCall(requests[i]) /\ requests[i].body.kind = "image")
            => /\ {"pose_estimates", "strike_events"}
                      \subseteq DOMAIN responses[r][i].body
               /\ requests[i].body.id = "blank"
                      => /\ responses[r][i].body.pose_estimates = {}
                         /\ responses[r][i].body.strike_events = <<>>

\* C4: every answer to a video-analysis request is a complete AnalysisReport
\* or an explicit error with an error kind and a message, never a
\* success-shaped answer that is neither.
C4_ReportOrError ==
    \A r \in Runs : \A i \in Served :
        IsProcessVideoCall(requests[i])
            => \/ IsAnalysisReport(responses[r][i].body)
               \/ IsExplicitError(responses[r][i])

\* C5: serving GET /health answers with status "healthy", with the same
\* value as every earlier health answer and as the other run, and changes
\* nothing of the service (environment, application, server, control).
C5_HealthStatic ==
    [][ (Len(requests') = Len(requests) + 1
            /\ IsHealthCall(requests'[Len(requests')]))
        => /\ \A r \in Runs :
                LET a == responses'[r][Len(requests')]
                IN  /\ a.code = 200
                    /\ a.body.status = "healthy"
                    /\ \A i \in Served :
                          IsHealthCall(requests[i]) => responses[r][i] = a
                    /\ \A q \in Runs : responses'[q][Len(requests')] = a
           /\ UNCHANGED <<dotenv, environ, pc, app, server>> ]_vars

C5_Witness ==
    /\ Len(requests) >= 3
    /\ IsHealthCall(requests[1])
    /\ IsProcessVideoCall(requests[2])
    /\ IsHealthCall(requests[3])
    /\ responses[1][3].body.status = "healthy"
    /\ responses[1][1] = responses[1][3]

\* C6: a running server reloads exactly when ENV is "development"; the two
\* runs, which differ in ENV only, listen on the same host and port and have
\* given the same answers to the requests sent so far.
C6_EnvOnlyReload ==
    /\ \A r \in Runs :
          server[r].running
              => (server[r].reload
                     <=> ("ENV" \in DOMAIN environ[r]
                            /\ environ[r]["ENV"] = "development"))
    /\ (\A r \in Runs : server[r].running)
          => /\ server[1].host = server[2].host
             /\ server[1].port = server[2].port
    /\ responses[1] = responses[2]

C6_Witness ==
    /\ \A r \in Runs : server[r].running
    /\ server[1].reload /\ ~server[2].reload
    /\ "ENV" \in DOMAIN environ[2] /\ environ[2]["ENV"] = "production"
    /\ Len(requests) >= 2
    /\ IsProcessVideoCall(requests[1])
    /\ IsRootCall(requests[2])

\* C7: two calls of the process-video endpoint with the same input got the
\* same answer, whatever was served between them.
C7_ProcessVideoDeterministic ==
    \A r \in Runs : \A i, j \in Served :
        (IsProcessVideoCall(requests[i]) /\ requests[j] = requests[i])
            => responses[r][i] = responses[r][j]

C7_Witness ==
    /\ Len(requests) >= 3
    /\ IsProcessVideoCall(requests[1])
    /\ requests[3] = requests[1]
    /\ IsAnalyzeFrameCall(requests[2])
    /\ responses[1][1] = responses[1][3]

\* C10 as stated: once a run serves, the paths the directory of GET /
\* advertises are served by registered routes, every registered route other
\* than / is advertised, and no advertised path is answered with 404.
C10_EveryRegisteredRouteAdvertised ==
    \A r \in Runs :
        pc[r] = "serving"
            => /\ Advertised(r) \subseteq RegisteredPaths(r)
               /\ RegisteredPaths(r) \ {"/"} \subseteq Advertised(r)
               /\ \A p \in Advertised(r) : \A m \in Methods :
                     Dispatch(app[r].routes, Req(m, p, NoBody)).code # 404

\* C10 as amended: once a run serves, the paths the directory of GET /
\* advertises are served by registered routes, every route main.py itself
\* declares other than / is advertised, each advertised path is answered by
\* its handler under some method and by 404 under none.
C10_DirectoryConsistent ==
    \A r \in Runs :
        pc[r] = "serving"
            => /\ Advertised(r) \subseteq RegisteredPaths(r)
               /\ DeclaredPaths(r) \ {"/"} = Advertised(r)
               /\ \A p \in Advertised(r) :
                     /\ \E m \in Methods :
                           Dispatch(app[r].routes, Req(m, p, NoBody)).code = 200
                     /\ \A m \in Methods :
                           Dispatch(app[r].routes, Req(m, p, NoBody)).code # 404

C10_Witness ==
    /\ Len(requests) >= 2
    /\ IsRootCall(requests[1])
    /\ responses[1][1].code = 200
    /\ requests[2].path = responses[1][1].body.endpoints.process_video
    /\ requests[2].method = "POST"
    /\ responses[1][2].code = 200
    /\ "/docs" \in RegisteredPaths(1)

====
